---- MODULE Spec2Model ----
(***************************************************************************)
(* LanceDBServer (src/src/lancedb_mcp/server.py): the gateway that owns    *)
(* one connection to a LanceDB store and a cache of opened table handles,  *)
(* with its six operations start, stop, list_resources, create_table,      *)
(* add_vector and search_vectors, each run under one asyncio.Lock.         *)
(* The request models of src/src/lancedb_mcp/models.py (TableConfig,        *)
(* SearchQuery) are operators on the values a caller passes.               *)
(*                                                                         *)
(* Spec       : one caller awaiting one operation after the other.         *)
(* SpecConc   : NProcs callers whose calls interleave at the lock.         *)
(* SpecModels : one caller that builds request models and calls the        *)
(*              gateway with values of its own choosing.                   *)
(*                                                                         *)
(* The project tools of src/src/lancedb_mcp/__init__.py and cli.py work on *)
(* a directory of their own.                                               *)
(*                                                                         *)
(* SpecCli    : runs of the cli command and calls of the functions it is   *)
(*              made of, in one directory.                                 *)
(***************************************************************************)
EXTENDS Integers, Sequences, FiniteSets, TLC

VARIABLES
    db,          \* self.db: NoConn (None) or the identity of the connection
    tables,      \* self.tables: name -> handle, the table cache
    start_time,  \* self.start_time: FALSE (None) or TRUE (a timestamp)
    store,       \* the LanceDB directory at db_uri: name -> table or NoTable
    lock,        \* self._lock: NoProc (free) or the caller holding it
    pc,          \* per caller: "idle", "waiting" (at async with) or "locked"
    req,         \* per caller: the call in flight
    ret,         \* per caller: the last finished call and its outcome
    acked,       \* history: per table, the add_vector calls that returned success
    replaced,    \* history, kept under SpecFaults: per table, the dimension of the
                 \* table the latest successful create_table overwrote (0: none)
                 \* since a create_table on it last returned success
    fs,          \* the directory the project tools work in (cli.py, __init__.py)
    result       \* the last run of a project tool and how it ended

vars == <<db, tables, start_time, store, lock, pc, req, ret, acked, replaced, fs,
          result>>

\* What the properties remember of the calls made; no operation reads it.
observed == <<acked, replaced>>

\* What the project tools read and write; the gateway never touches it.
shell == <<fs, result>>

gateway == <<db, tables, start_time, store>>

-----------------------------------------------------------------------------
(* Bounds of the model.                                                    *)

\* Records that add_vector may have appended store-wide (seed rows excluded)
\* under Spec; under SpecConc every caller has room for one.
MaxRecords == 2

\* Concurrent callers in SpecConc.
NProcs == 2

-----------------------------------------------------------------------------
(* Values.                                                                 *)

NoConn == "None"
NoProc == 0
NoText == "None"
NoTable == [dim |-> -1, rows |-> << >>]

ConnIds == {"conn1", "conn2", "conn3"}

\* Table names in the order table_names() reports them.
AllNames == <<"_init", "t1">>
Names == {AllNames[i] : i \in 1..Len(AllNames)}

Procs == 1..NProcs
\* The caller of Spec: the first of the callers.
Client == CHOOSE p \in Procs : \A q \in Procs : p <= q

DimInputs == {0, 1, 2}
VectorInputs == {<<0>>, <<1>>, <<0, 1>>}
TextInputs == {"a"}
LimitInputs == {1, 2}

\* The failure of an external call, as the text of the exception it raises.
Cause == "OSError"
\* What open_table raises for a name the store does not hold.
Missing == "Table was not found"

Range(s) == {s[i] : i \in 1..Len(s)}

\* The characters of the table names the model uses.
Chars(n) ==
    CASE n = "_init" -> <<"_", "i", "n", "i", "t">>
      [] n = "t1" -> <<"t", "1">>
      [] n = "test" -> <<"t", "e", "s", "t">>
      [] n = "test_table" -> <<"t", "e", "s", "t", "_", "t", "a", "b", "l", "e">>
      [] n = "vector_test" -> <<"v", "e", "c", "t", "o", "r", "_", "t", "e", "s", "t">>
      [] n = "test-project" ->
             <<"t", "e", "s", "t", "-", "p", "r", "o", "j", "e", "c", "t">>
      [] n = "valid_name" -> <<"v", "a", "l", "i", "d", "_", "n", "a", "m", "e">>
      [] n = "invalid name" ->
             <<"i", "n", "v", "a", "l", "i", "d", " ", "n", "a", "m", "e">>
      [] n = "invalid@name" ->
             <<"i", "n", "v", "a", "l", "i", "d", "@", "n", "a", "m", "e">>
      [] n = "valid123\n" -> <<"v", "a", "l", "i", "d", "1", "2", "3", "\n">>
      [] OTHER -> << >>

AlnumChars ==
    {"a", "b", "c", "d", "e", "f", "g", "h", "i", "j", "k", "l", "m", "n", "o", "p",
     "q", "r", "s", "t", "u", "v", "w", "x", "y", "z",
     "0", "1", "2", "3", "4", "5", "6", "7", "8", "9"}

\* str.isalnum(): non-empty, every character a letter or a digit.
isalnum(n) == Chars(n) # << >> /\ \A i \in 1..Len(Chars(n)) : Chars(n)[i] \in AlnumChars

\* TableConfig.validate_name: the names a table configuration accepts.
validate_name(n) == isalnum(n)

\* [0.0] * dimension
Zeros(d) == [i \in 1..d |-> 0]

-----------------------------------------------------------------------------
(* The store, as the gateway uses it.                                      *)

\* pd.DataFrame({"dummy": [0]}): one row, no "vector" column (dim 0).
InitTable == [dim |-> 0, rows |-> <<[vector |-> << >>, text |-> NoText]>>]

\* db.create_table(table_name, data=empty_data, schema=schema, mode="overwrite")
NewTable(dimension) ==
    [dim |-> dimension, rows |-> <<[vector |-> Zeros(dimension), text |-> NoText]>>]

\* list(self.db.table_names())
TableNames(s) == SelectSeq(AllNames, LAMBDA n : s[n] # NoTable)

\* The handle db.open_table / db.create_table returns under connection c: it
\* names the table and carries the schema (dimension d) of the table it was
\* obtained for, which table.schema reads.
Handle(c, n, d) == [conn |-> c, name |-> n, dim |-> d]

\* self.tables = {}
EmptyCache == [n \in {} |-> Handle(NoConn, n, 0)]

\* table.schema.field("vector").type.list_size; the field is missing when dim = 0.
HasVectorField(t) == t.dim > 0

\* The records add_vector has appended to the store's tables: every row but
\* the one create_table wrote.
RECURSIVE AddedIn(_, _)
AddedIn(s, i) ==
    IF i > Len(AllNames) THEN 0
    ELSE (IF HasVectorField(s[AllNames[i]]) THEN Len(s[AllNames[i]].rows) - 1 ELSE 0)
         + AddedIn(s, i + 1)

Added(s) == AddedIn(s, 1)

\* Squared L2 distance, the metric of table.search(query_vector).
RECURSIVE SumSq(_, _, _)
SumSq(a, b, i) ==
    IF i > Len(a) THEN 0
    ELSE (a[i] - b[i]) * (a[i] - b[i]) + SumSq(a, b, i + 1)

Distance(a, b) == SumSq(a, b, 1)

Min(a, b) == IF a <= b THEN a ELSE b

Injective(f) == \A i, j \in DOMAIN f : f[i] = f[j] => i = j

\* table.search(q).limit(limit): the row indices of the limit nearest rows in
\* ascending distance; rows at equal distance may come in any order.
Rankings(rows, q, limit) ==
    LET k == Min(limit, Len(rows))
        D(i) == Distance(rows[i].vector, q)
    IN  {o \in [1..k -> 1..Len(rows)] :
            /\ Injective(o)
            /\ \A i \in 1..k : \A j \in 1..k : i < j => D(o[i]) <= D(o[j])
            /\ \A i \in 1..k : \A r \in 1..Len(rows) :
                   r \notin Range(o) => D(o[i]) <= D(r)}

-----------------------------------------------------------------------------
(* Calls and their outcomes.                                               *)

NoArgs == [name |-> "", dimension |-> 0, vector |-> << >>, text |-> NoText, limit |-> 0]

NoCall == [op |-> "none", args |-> NoArgs]

\* No call the operation made has raised.
NoFailure == [call |-> "", message |-> ""]

NoRet ==
    [op |-> "none", args |-> NoArgs, status |-> "none", error |-> "", msg |-> << >>,
     results |-> << >>, resources |-> << >>, calls |-> << >>, failed |-> NoFailure,
     logs |-> << >>]

\* A normal return; calls are the store calls the operation issued.
Success(o, a, c) ==
    [op |-> o, args |-> a, status |-> "success", error |-> "", msg |-> << >>,
     results |-> << >>, resources |-> << >>, calls |-> c, failed |-> NoFailure,
     logs |-> << >>]

\* Mutant: the handler lets the ValueError of a dimension check through.
RaiseValueErrorThrough(o, a, m, c) ==
    [op |-> o, args |-> a, status |-> "error",
     error |-> IF "dimension" \in {m[i] : i \in 1..Len(m)} THEN "ValueError" ELSE "DatabaseError",
     msg |-> m, results |-> << >>, resources |-> << >>, calls |-> c,
     failed |-> NoFailure,
     logs |-> << >>]

\* raise DatabaseError(m): every operation's outermost handler raises this class.
Raise(o, a, m, c) ==
    [op |-> o, args |-> a, status |-> "error", error |-> "DatabaseError", msg |-> m,
     results |-> << >>, resources |-> << >>, calls |-> c, failed |-> NoFailure,
     logs |-> << >>]

\* The outcome r of an operation during which the call raised the message.
Failing(r, call, message) == [r EXCEPT !.failed = [call |-> call, message |-> message]]

\* Mutant: a store call that raised is made a second time.
StoreCallRetried(call, raised) == IF raised THEN <<call, call>> ELSE <<call>>

\* await asyncio.to_thread(...): the store call an operation makes, once,
\* whether it returns or raises.
StoreCall(call, raised) == <<call>>

\* Mutant: every message is logged at INFO, whatever level was asked for.
send_log_at_info(level, data) == [level |-> "INFO", data |-> data]

\* _send_log(level, message): the message goes to the logger at the level and,
\* when the call runs in a request with a session, to the client as a "log"
\* notification with the same level and data.
send_log(level, data) == [level |-> level, data |-> data]

\* The outcome r of an operation that emitted the log entries, in this order.
Logged(r, entries) == [r EXCEPT !.logs = entries]

Return(p, r) == ret' = [ret EXCEPT ![p] = r]

\* "fragment" in str(e): a message is the sequence of its fragments.
Contains(m, fragment) == fragment \in Range(m)

-----------------------------------------------------------------------------
(* The operations of LanceDBServer, each from async with to its return.    *)

\* A connection identity no live reference (db, a cached handle) still carries.
NewConn ==
    CHOOSE c \in ConnIds : c # db /\ \A n \in DOMAIN tables : tables[n].conn # c

\* Mutant: the filter keeps the bookkeeping table and drops the others.
UserTablesInverted(s) == SelectSeq(TableNames(s), LAMBDA n : n = "_init")

\* [name for name in table_names if name != "_init"]
UserTables(s) == SelectSeq(TableNames(s), LAMBDA n : n # "_init")

\* Mutant: start forgets self.tables = {} and keeps the old entries.
OpenedTablesKeepingOld(c, names, unopened) ==
    [n \in DOMAIN tables \cup (Range(names) \ unopened) |->
        IF n \in Range(names) \ unopened THEN Handle(c, n, store[n].dim) ELSE tables[n]]

\* Mutant: the tables are opened through the connection held before the call.
OpenedTablesUnderOld(c, names, unopened) ==
    [n \in Range(names) \ unopened |-> Handle(db, n, store[n].dim)]

\* self.tables = {} and the loop that opens every existing table under the new
\* connection c; a table whose open fails is logged and left out.
OpenedTables(c, names, unopened) ==
    [n \in Range(names) \ unopened |-> Handle(c, n, store[n].dim)]

start(p, fault, unopened) ==
    LET a == NoArgs
        withInit == [store EXCEPT !["_init"] = InitTable]
        names == UserTables(withInit)
    IN
    CASE fault = "makedirs" ->
            /\ UNCHANGED gateway
            /\ Return(p, Logged(
                       Failing(Raise("start", a, <<"Failed to start server", Cause>>,
                                        << >>),
                                  "makedirs", Cause),
                       <<send_log("ERROR", <<"Failed to start server", Cause>>)>>))
      [] fault = "connect" ->
            /\ db' = NoConn
            /\ UNCHANGED <<tables, start_time, store>>
            /\ Return(p, Logged(
                       Failing(Raise("start", a,
                   <<"Failed to start server", "Failed to connect to database", Cause>>,
                   <<"connect">>), "connect", Cause),
                       <<send_log("INFO", <<"Connecting to database">>),
                        send_log("ERROR", <<"Failed to connect to database", Cause>>),
                        send_log("ERROR", <<"Failed to start server", "Failed to connect to database", Cause>>)>>))
      [] fault = "create_table" ->
            /\ db' = NoConn
            /\ UNCHANGED <<tables, start_time, store>>
            /\ Return(p, Logged(
                       Failing(Raise("start", a,
                   <<"Failed to start server", "Failed to connect to database", Cause>>,
                   <<"connect", "create_table">>), "create_table", Cause),
                       <<send_log("INFO", <<"Connecting to database">>),
                        send_log("ERROR", <<"Failed to connect to database", Cause>>),
                        send_log("ERROR", <<"Failed to start server", "Failed to connect to database", Cause>>)>>))
      [] fault = "table_names" ->
            /\ db' = NoConn
            /\ tables' = EmptyCache
            /\ store' = withInit
            /\ UNCHANGED start_time
            /\ Return(p, Logged(
                       Failing(Raise("start", a,
                   <<"Failed to start server", "Failed to connect to database", Cause>>,
                   <<"connect", "create_table", "table_names">>), "table_names", Cause),
                       <<send_log("INFO", <<"Connecting to database">>),
                        send_log("INFO", <<"Connected to database">>),
                        send_log("ERROR", <<"Failed to connect to database", Cause>>),
                        send_log("ERROR", <<"Failed to start server", "Failed to connect to database", Cause>>)>>))
      [] OTHER ->
            /\ db' = NewConn
            /\ store' = withInit
            /\ tables' = OpenedTables(NewConn, names, unopened)
            /\ start_time' = TRUE
            /\ LET r == Success("start", a,
                            <<"connect", "create_table", "table_names">>
                              \o [i \in 1..Len(names) |-> "open_table"])
               IN  Return(p, Logged(
                           IF unopened = {} THEN r
                             ELSE Failing(r, "open_table", Cause),
                           <<send_log("INFO", <<"Connecting to database">>),
                            send_log("INFO", <<"Connected to database">>),
                            send_log("INFO", <<"Found", ToString(Len(names)), "existing tables">>)>>
                            \o [i \in 1..Len(names) |->
                            IF names[i] \in unopened
                            THEN send_log("WARNING", <<"Failed to open table", names[i], Cause>>)
                            ELSE send_log("INFO", <<"Opened table", names[i]>>)]
                            \o <<send_log("INFO", <<"Server started successfully">>)>>))

\* Mutant: stop checks the connection first, as the table operations do.
stopRequiringConnection(p) ==
    IF db = NoConn
    THEN /\ UNCHANGED gateway
         /\ Return(p, Logged(
                    Raise("stop", NoArgs,
                <<"Error stopping server", "Database not initialized">>, << >>),
                    <<send_log("ERROR", <<"Error stopping server", "Database not initialized">>)>>))
    ELSE /\ tables' = EmptyCache
         /\ db' = NoConn
         /\ start_time' = FALSE
         /\ UNCHANGED store
         /\ Return(p, Logged(
                    Success("stop", NoArgs, << >>),
                    <<send_log("INFO", <<"Server stopped successfully">>)>>))

stop(p) ==
    /\ tables' = EmptyCache
    /\ db' = NoConn
    /\ start_time' = FALSE
    /\ UNCHANGED store
    /\ Return(p, Logged(
               Success("stop", NoArgs, << >>),
               <<send_log("INFO", <<"Server stopped successfully">>)>>))

list_resources(p, fault) ==
    LET a == NoArgs IN
    /\ UNCHANGED gateway
    /\ IF db = NoConn
       THEN Return(p, Logged(
                    Success("list_resources", a, << >>),
                    << >>))
       ELSE IF fault = "table_names"
       THEN Return(p, Logged(
                    Failing(Raise("list_resources", a,
                <<"Failed to list tables", Cause>>, <<"table_names">>),
                "table_names", Cause),
                    <<send_log("ERROR", <<"Failed to list tables", Cause>>)>>))
       ELSE Return(p, Logged(
                    [Success("list_resources", a, <<"table_names">>)
                         EXCEPT !.resources = UserTables(store)],
                    << >>))

\* Mutant: the connection check never raises.
validate_db_state_skipped == TRUE

\* _validate_db_state raises when self.db is unset.
validate_db_state == db # NoConn

\* Mutant: self.tables.setdefault(table_name, ...) keeps an entry already there.
CachedKeepingOld(table_name, dimension) ==
    [n \in DOMAIN tables \cup {table_name} |->
        IF n \in DOMAIN tables THEN tables[n] ELSE Handle(db, n, dimension)]

\* self.tables[table_name] = db.create_table(..., mode="overwrite"): the handle
\* of the new table takes the place of any entry the name had.
Cached(table_name, dimension) ==
    [n \in DOMAIN tables \cup {table_name} |->
        IF n = table_name THEN Handle(db, n, dimension) ELSE tables[n]]

create_table(p, table_name, dimension, fault) ==
    LET a == [NoArgs EXCEPT !.name = table_name, !.dimension = dimension] IN
    IF ~validate_db_state
    THEN /\ UNCHANGED gateway
         /\ Return(p, Logged(
                    Raise("create_table", a,
                <<"Failed to create table", "Database not initialized">>, << >>),
                    <<send_log("ERROR", <<"Failed to create table", table_name, "Database not initialized">>)>>))
    ELSE IF dimension <= 0
    THEN /\ UNCHANGED gateway
         /\ Return(p, Logged(
                    Raise("create_table", a,
                <<"Failed to create table", "Vector", "dimension", "must be positive">>, << >>),
                    <<send_log("ERROR", <<"Failed to create table", table_name, "Vector", "dimension",
                     "must be positive">>)>>))
    ELSE IF fault = "create_table"
    THEN /\ UNCHANGED gateway
         /\ Return(p, Logged(
                    Failing(Raise("create_table", a,
                <<"Failed to create table", "Failed to create table", Cause>>,
                StoreCall("create_table", TRUE)), "create_table", Cause),
                    <<send_log("ERROR", <<"Failed to create table", table_name, Cause>>),
                     send_log("ERROR", <<"Failed to create table", table_name, "Failed to create table", Cause>>)>>))
    ELSE /\ store' = [store EXCEPT ![table_name] = NewTable(dimension)]
         /\ tables' = Cached(table_name, dimension)
         /\ UNCHANGED <<db, start_time>>
         /\ Return(p, Logged(
                    Success("create_table", a, StoreCall("create_table", FALSE)),
                    <<send_log("INFO", <<"Created table", table_name>>)>>))

\* Mutant: only a vector that is too long is rejected.
DimensionMismatchTooLongOnly(vector, table) == Len(vector) > table.dim

\* Mutant: table.add(df, mode="overwrite") replaces the rows by the new one.
AddRecordOverwriting(rows, record) == <<record>>

\* table.add(df): the record is appended to the table's rows.
AddRecord(rows, record) == Append(rows, record)

\* if len(vector) != expected_dim
DimensionMismatch(vector, table) == Len(vector) # table.dim

\* Mutant: a failed open_table is not noticed.
ResolvableAlways(table_name, fault) == TRUE

\* if table_name not in self.tables: self.tables[table_name] = open_table(table_name)
\* The cache after the lookup; the open fails for a table the store does not hold.
Resolvable(table_name, fault) ==
    \/ table_name \in DOMAIN tables
    \/ store[table_name] # NoTable /\ fault # "open_table"

Resolved(table_name) ==
    [n \in DOMAIN tables \cup {table_name} |->
        IF n \in DOMAIN tables THEN tables[n] ELSE Handle(db, n, store[n].dim)]

\* Mutant: the table is opened from the store whether or not it is cached.
OpenCallsAlways(table_name) == <<"open_table">>

\* The open_table call the lookup makes: none for a cached name.
OpenCalls(table_name) ==
    IF table_name \in DOMAIN tables THEN << >> ELSE <<"open_table">>

add_vector(p, table_name, vector, text, fault) ==
    LET a == [NoArgs EXCEPT !.name = table_name, !.vector = vector, !.text = text]
        handle == Resolved(table_name)[table_name]
        table == [dim |-> handle.dim, rows |-> store[handle.name].rows]
        record == [vector |-> vector, text |-> IF text # "" THEN text ELSE NoText]
    IN
    IF ~validate_db_state
    THEN /\ UNCHANGED gateway
         /\ Return(p, Logged(
                    Raise("add_vector", a, <<"Database not initialized">>, << >>),
                    <<send_log("ERROR", <<"Failed to add vector", "Database not initialized">>)>>))
    ELSE IF ~Resolvable(table_name, fault)
    THEN /\ UNCHANGED gateway
         /\ Return(p, Logged(
                    Failing(Raise("add_vector", a,
                <<"Table", table_name, "not found",
                  IF fault = "open_table" THEN Cause ELSE Missing>>,
                <<"open_table">>),
                "open_table", IF fault = "open_table" THEN Cause ELSE Missing),
                    <<send_log("ERROR", <<"Failed to add vector", "Table", table_name, "not found",
                     IF fault = "open_table" THEN Cause ELSE Missing>>)>>))
    ELSE IF ~HasVectorField(table)
    THEN /\ tables' = Resolved(table_name)
         /\ UNCHANGED <<db, start_time, store>>
         /\ Return(p, Logged(
                    Raise("add_vector", a, <<"KeyError", "vector">>,
                OpenCalls(table_name)),
                    <<send_log("ERROR", <<"Failed to add vector", "KeyError", "vector">>)>>))
    ELSE IF DimensionMismatch(vector, table)
    THEN /\ tables' = Resolved(table_name)
         /\ UNCHANGED <<db, start_time, store>>
         /\ Return(p, Logged(
                    Raise("add_vector", a,
                <<"Vector", "dimension", "mismatch", "expected", ToString(table.dim),
                  "got", ToString(Len(vector))>>,
                OpenCalls(table_name)),
                    <<send_log("ERROR", <<"Failed to add vector", "Vector", "dimension", "mismatch", "expected",
                     ToString(table.dim), "got", ToString(Len(vector))>>)>>))
    ELSE IF fault = "add"
    THEN /\ tables' = Resolved(table_name)
         /\ UNCHANGED <<db, start_time, store>>
         /\ Return(p, Logged(
                    Failing(Raise("add_vector", a,
                <<"Failed to add vector to table", table_name, Cause>>,
                OpenCalls(table_name) \o StoreCall("add", TRUE)), "add", Cause),
                    <<send_log("ERROR", <<"Failed to add vector to table", table_name, Cause>>),
                     send_log("ERROR", <<"Failed to add vector", "Failed to add vector to table", table_name, Cause>>)>>))
    ELSE /\ tables' = Resolved(table_name)
         /\ store' = [store EXCEPT ![table_name].rows = AddRecord(@, record)]
         /\ UNCHANGED <<db, start_time>>
         /\ Return(p, Logged(
                    Success("add_vector", a,
                OpenCalls(table_name) \o StoreCall("add", FALSE)),
                    <<send_log("INFO", <<"Added vector to table", table_name>>)>>))

search_vectors(p, table_name, query_vector, limit, fault) ==
    LET a == [NoArgs EXCEPT !.name = table_name, !.vector = query_vector,
                            !.limit = limit]
        handle == Resolved(table_name)[table_name]
        table == [dim |-> handle.dim, rows |-> store[handle.name].rows]
    IN
    IF ~validate_db_state
    THEN /\ UNCHANGED gateway
         /\ Return(p, Logged(
                    Raise("search_vectors", a,
                <<"Failed to search vectors", "Database not initialized">>, << >>),
                    <<send_log("ERROR", <<"Failed to search vectors", "Database not initialized">>)>>))
    ELSE IF ~Resolvable(table_name, fault)
    THEN /\ UNCHANGED gateway
         /\ Return(p, Logged(
                    Failing(Raise("search_vectors", a,
                <<"Failed to search vectors", "Table", table_name, "not found">>,
                <<"open_table">>),
                "open_table", IF fault = "open_table" THEN Cause ELSE Missing),
                    <<send_log("ERROR", <<"Failed to search vectors", "Table", table_name, "not found">>)>>))
    ELSE IF ~HasVectorField(table)
    THEN /\ tables' = Resolved(table_name)
         /\ UNCHANGED <<db, start_time, store>>
         /\ Return(p, Logged(
                    Raise("search_vectors", a,
                <<"Failed to search vectors", "KeyError", "vector">>,
                OpenCalls(table_name)),
                    <<send_log("ERROR", <<"Failed to search vectors", "KeyError", "vector">>)>>))
    ELSE IF DimensionMismatch(query_vector, table)
    THEN /\ tables' = Resolved(table_name)
         /\ UNCHANGED <<db, start_time, store>>
         /\ Return(p, Logged(
                    Raise("search_vectors", a,
                <<"Failed to search vectors", "Query vector", "dimension", "mismatch",
                  "expected", ToString(table.dim), "got", ToString(Len(query_vector))>>,
                OpenCalls(table_name)),
                    <<send_log("ERROR", <<"Failed to search vectors", "Query vector", "dimension", "mismatch",
                     "expected", ToString(table.dim), "got", ToString(Len(query_vector))>>)>>))
    ELSE IF fault = "search"
    THEN /\ tables' = Resolved(table_name)
         /\ UNCHANGED <<db, start_time, store>>
         /\ Return(p, Logged(
                    Failing(Raise("search_vectors", a,
                <<"Failed to search vectors", Cause>>,
                OpenCalls(table_name) \o StoreCall("search", TRUE)), "search", Cause),
                    <<send_log("ERROR", <<"Failed to search vectors", Cause>>)>>))
    ELSE IF limit <= 0
    THEN \* .limit(limit) is called as it stands; depending on the lancedb release
         \* the query raises or comes back without rows.
         /\ tables' = Resolved(table_name)
         /\ UNCHANGED <<db, start_time, store>>
         /\ \/ Return(p, Logged(
                       Failing(Raise("search_vectors", a,
                    <<"Failed to search vectors", Cause>>,
                    OpenCalls(table_name) \o StoreCall("search", TRUE)),
                    "search", Cause),
                       <<send_log("ERROR", <<"Failed to search vectors", Cause>>)>>))
            \/ Return(p, Logged(
                       Success("search_vectors", a,
                    OpenCalls(table_name) \o StoreCall("search", FALSE)),
                       <<send_log("INFO", <<"Found", "0", "results in table", table_name>>)>>))
    ELSE /\ tables' = Resolved(table_name)
         /\ UNCHANGED <<db, start_time, store>>
         /\ \E o \in Rankings(table.rows, query_vector, limit) :
                Return(p, Logged(
                        [Success("search_vectors", a,
                               OpenCalls(table_name) \o StoreCall("search", FALSE))
                             EXCEPT !.results = [i \in DOMAIN o |-> table.rows[o[i]]]],
                        <<send_log("INFO", <<"Found", ToString(Len(o)), "results in table", table_name>>)>>))

-----------------------------------------------------------------------------
(* The project tools: check_package_name, PyProject,                       *)
(* update_pyproject_settings, copy_template, create_project and the cli    *)
(* command.                                                                *)

\* The keys of the [project] table, in the order they are written.
ProjectKeys == <<"name", "version", "description", "scripts">>

\* PyProject.__init__: the data of a project whose pyproject.toml is missing.
DefaultProject == [name |-> "", version |-> "0.1.0", description |-> "", scripts |-> ""]

\* A directory as the tools see it: the packages under src/, pyproject.toml as
\* the key/value lines of its [project] table, and the files rendered from the
\* templates.
EmptyDir == [src |-> {}, toml |-> [exists |-> FALSE, lines |-> << >>], files |-> {}]

\* A call that passes no settings.
NoSettings == [k \in {} |-> ""]

NoResult ==
    [cmd |-> "none", name |-> "", exit_code |-> 0, exception |-> "", output |-> << >>,
     settings |-> NoSettings]

\* How a run or a call ended.
Ended(cmd, name, code, exception, output) ==
    [cmd |-> cmd, name |-> name, exit_code |-> code, exception |-> exception,
     output |-> output, settings |-> NoSettings]

CliNames == {"test-project", "valid_name", "invalid name", "invalid@name"}
\* The names check_package_name is called with.
CheckNames == CliNames \cup {"", "valid123\n"}
\* The settings update_pyproject_settings is called with.
SettingsInputs ==
    {[version |-> v] : v \in {"0.1.0", "1.0.0"}}
    \cup {[description |-> d] : d \in {"Test project", "New description"}}
    \cup {[version |-> v, description |-> d] :
            v \in {"0.1.0", "1.0.0"}, d \in {"Test project", "New description"}}
Versions == {"0.1.0", "1.0.0"}
Descriptions == {"Test project", "New description"}

UpperChars ==
    {"A", "B", "C", "D", "E", "F", "G", "H", "I", "J", "K", "L", "M", "N", "O", "P",
     "Q", "R", "S", "T", "U", "V", "W", "X", "Y", "Z"}

\* re.match(r"^[a-zA-Z0-9_-]+$", name): $ also matches before a final newline.
MatchesPackagePattern(name) ==
    LET c == Chars(name)
        body == IF c # << >> /\ c[Len(c)] = "\n" THEN SubSeq(c, 1, Len(c) - 1) ELSE c
    IN  /\ body # << >>
        /\ \A i \in 1..Len(body) : body[i] \in AlnumChars \cup UpperChars \cup {"_", "-"}

\* check_package_name: the message it prints before sys.exit(1), or "" when it
\* returns.
check_package_name(name) ==
    IF " " \in Range(Chars(name)) THEN "Name must not contain spaces"
    ELSE IF ~MatchesPackagePattern(name) THEN "Invalid name"
    ELSE ""

\* bool(check_package_name(name)) when the function returns: it has no return
\* statement, so the value is None.
check_package_name_value == FALSE

\* toml.load: the [project] table as a dictionary.
Load(lines) ==
    [k \in {lines[i][1] : i \in 1..Len(lines)} |->
        LET i == CHOOSE j \in 1..Len(lines) : lines[j][1] = k IN lines[i][2]]

\* toml.dump: one line for every key of the dictionary.
Dump(data) ==
    LET ks == SelectSeq(ProjectKeys, LAMBDA k : k \in DOMAIN data)
    IN  [i \in 1..Len(ks) |-> <<ks[i], data[ks[i]]>>]

\* PyProject(pyproject_path).data["project"]
PyProject(toml) == IF toml.exists THEN Load(toml.lines) ELSE DefaultProject

\* Mutant: the [project] table is replaced by the settings.
UpdatedReplacing(data, settings) == settings

\* dict.update
Updated(data, settings) ==
    [k \in DOMAIN data \cup DOMAIN settings |->
        IF k \in DOMAIN settings THEN settings[k] ELSE data[k]]

\* update_pyproject_settings(path, settings): the directory afterwards.
update_pyproject_settings(f, settings) ==
    [f EXCEPT !.toml = [exists |-> TRUE,
                        lines |-> Dump(Updated(PyProject(f.toml), settings))]]

\* copy_template: the target directory is made; the three files are rendered
\* when the package ships its template directory, else get_template raises.
copy_template(f, name, templates) ==
    [f EXCEPT !.src = @ \cup {name},
              !.files = IF templates
                        THEN @ \cup {<<name, "__init__.py">>, <<name, "server.py">>,
                                     <<"", "README.md">>}
                        ELSE @]

\* create_project(path, name, description, version): the directory afterwards,
\* for a name check_package_name lets through.
create_project(f, name, description, version, templates) ==
    LET made == [f EXCEPT !.src = @ \cup {name}]
        settings == [name |-> name, version |-> version, description |-> description,
                     scripts |-> name]
    IN  copy_template(update_pyproject_settings(made, settings), name, templates)

\* The cli command run with --name, --version and --description in the
\* directory, as click runs it: an exit through sys.exit(1), click.Abort or an
\* exception gives exit code 1.
cli(name, version, description, templates) ==
    IF check_package_name(name) # ""
    THEN /\ fs' = fs
         /\ result' = Ended("cli", name, 1, "SystemExit", <<check_package_name(name)>>)
    ELSE IF ~check_package_name_value
    THEN /\ fs' = fs
         /\ result' = Ended("cli", name, 1, "Abort", <<"Invalid package name", "Aborted!">>)
    ELSE IF name \in fs.src
    THEN /\ fs' = fs
         /\ result' = Ended("cli", name, 1, "Abort",
                            <<"Directory already exists", "Aborted!">>)
    ELSE /\ fs' = create_project(fs, name, description, version, templates)
         /\ result' = IF templates THEN Ended("cli", name, 0, "", << >>)
                      ELSE Ended("cli", name, 1, "TemplateNotFound", << >>)

-----------------------------------------------------------------------------
(* Spec: one caller, one call after the other.  The lock is free before    *)
(* and after each call, so a call runs from async with to its return in    *)
(* one step.                                                               *)

Init ==
    /\ db = NoConn
    /\ tables = EmptyCache
    /\ start_time = FALSE
    /\ store = [n \in Names |-> NoTable]
    /\ lock = NoProc
    /\ pc = [p \in Procs |-> "idle"]
    /\ req = [p \in Procs |-> NoCall]
    /\ ret = [p \in Procs |-> NoRet]
    /\ acked = [n \in Names |-> << >>]
    /\ replaced = [n \in Names |-> 0]
    /\ fs = EmptyDir
    /\ result = NoResult

StartFaults == {"none", "makedirs", "connect", "create_table", "table_names"}

\* Room for one more record under the cap, counting the adds in flight.
CanAdd(cap) ==
    Added(store) + Cardinality({q \in Procs : req[q].op = "add_vector"}) < cap

CallStart ==
    /\ lock = NoProc
    /\ \E fault \in StartFaults, unopened \in SUBSET (Names \ {"_init"}) :
           /\ fault # "none" => unopened = {}
           /\ unopened \subseteq Range(UserTables(store))
           /\ start(Client, fault, unopened)
    /\ UNCHANGED <<lock, pc, req, observed, shell>>

CallStop ==
    /\ lock = NoProc
    /\ stop(Client)
    /\ UNCHANGED <<lock, pc, req, observed, shell>>

CallListResources ==
    /\ lock = NoProc
    /\ list_resources(Client, "none")
    /\ UNCHANGED <<lock, pc, req, observed, shell>>

CallCreateTable ==
    /\ lock = NoProc
    /\ \E n \in Names, d \in DimInputs : create_table(Client, n, d, "none")
    /\ UNCHANGED <<lock, pc, req, observed, shell>>

CallAddVector ==
    /\ lock = NoProc
    /\ CanAdd(MaxRecords)
    /\ \E n \in Names, v \in VectorInputs, t \in TextInputs :
           add_vector(Client, n, v, t, "none")
    /\ UNCHANGED <<lock, pc, req, observed, shell>>

CallSearchVectors ==
    /\ lock = NoProc
    /\ \E n \in Names, q \in VectorInputs, k \in LimitInputs :
           search_vectors(Client, n, q, k, "none")
    /\ UNCHANGED <<lock, pc, req, observed, shell>>

Next ==
    \/ CallStart
    \/ CallStop
    \/ CallListResources
    \/ CallCreateTable
    \/ CallAddVector
    \/ CallSearchVectors

Spec == Init /\ [][Next]_vars

-----------------------------------------------------------------------------
(* SpecConc: NProcs callers.  A call waits at "async with self._lock",     *)
(* takes the lock when it is free, and runs to its return holding it (the  *)
(* awaits inside the block give control to callers that can only wait at   *)
(* the lock or issue a new call), releasing the lock as it leaves.         *)

ConcDims == {1}
ConcVectors == {<<1>>}
ConcTexts == {"a"}
ConcLimits == {2}

ConcCalls ==
    {[op |-> o, args |-> NoArgs] : o \in {"start", "stop", "list_resources"}}
    \cup {[op |-> "create_table", args |-> [NoArgs EXCEPT !.name = "t1", !.dimension = d]] :
            d \in ConcDims}
    \cup {[op |-> "add_vector",
           args |-> [NoArgs EXCEPT !.name = "t1", !.vector = v, !.text = t]] :
            v \in ConcVectors, t \in ConcTexts}
    \cup {[op |-> "search_vectors",
           args |-> [NoArgs EXCEPT !.name = "t1", !.vector = v, !.limit = k]] :
            v \in ConcVectors, k \in ConcLimits}

\* A caller calls an operation and reaches its "async with self._lock".
Invoke(p) ==
    /\ pc[p] = "idle"
    /\ \E c \in ConcCalls :
           /\ c.op = "add_vector" => CanAdd(NProcs)
           /\ req' = [req EXCEPT ![p] = c]
    /\ pc' = [pc EXCEPT ![p] = "waiting"]
    /\ ret' = [ret EXCEPT ![p] = NoRet]
    /\ UNCHANGED <<gateway, lock, observed, shell>>

\* Mutant: the lock is taken whether or not it is free.
AcquireUnguarded(p) ==
    /\ pc[p] = "waiting"
    /\ lock' = p
    /\ pc' = [pc EXCEPT ![p] = "locked"]
    /\ UNCHANGED <<gateway, req, ret, observed, shell>>

\* asyncio.Lock.acquire: the lock is taken only while it is free.
Acquire(p) ==
    /\ pc[p] = "waiting"
    /\ lock = NoProc
    /\ lock' = p
    /\ pc' = [pc EXCEPT ![p] = "locked"]
    /\ UNCHANGED <<gateway, req, ret, observed, shell>>

\* The body of the operation the caller called.
Body(p) ==
    LET a == req[p].args IN
    CASE req[p].op = "start" -> start(p, "none", {})
      [] req[p].op = "stop" -> stop(p)
      [] req[p].op = "list_resources" -> list_resources(p, "none")
      [] req[p].op = "create_table" -> create_table(p, a.name, a.dimension, "none")
      [] req[p].op = "add_vector" -> add_vector(p, a.name, a.vector, a.text, "none")
      [] req[p].op = "search_vectors" ->
             search_vectors(p, a.name, a.vector, a.limit, "none")

\* What the caller was told: a successful add_vector is noted, with whether
\* another caller's add_vector on the same table was in flight when it
\* returned; a successful create_table starts the table's history again.
Observe(p) ==
    LET r == ret'[p]
        n == r.args.name
        others == {q \in Procs \ {p} :
                      req[q].op = "add_vector" /\ req[q].args.name = n}
    IN
    acked' =
        IF r.op = "add_vector" /\ r.status = "success"
        THEN [acked EXCEPT ![n] = Append(@,
                 [record |-> [vector |-> r.args.vector, text |-> r.args.text],
                  concurrent |-> others # {}])]
        ELSE IF r.op = "create_table" /\ r.status = "success"
        THEN [acked EXCEPT ![n] = << >>]
        ELSE acked

\* The block under the lock, from the first statement to the release on leaving.
Run(p) ==
    /\ pc[p] = "locked"
    /\ Body(p)
    /\ Observe(p)
    /\ lock' = NoProc
    /\ pc' = [pc EXCEPT ![p] = "idle"]
    /\ req' = [req EXCEPT ![p] = NoCall]
    /\ UNCHANGED <<replaced, shell>>

NextConc == \E p \in Procs : Invoke(p) \/ Acquire(p) \/ Run(p)

SpecConc == Init /\ [][NextConc]_vars

-----------------------------------------------------------------------------
(* SpecModels: the request models of models.py, and the gateway called     *)
(* with whatever values the caller chooses.                                *)

\* limit: int = 10, in SearchQuery and in search_vectors alike.
DefaultLimit == 10

ConfigNames == {"", "t1", "test", "test_table", "vector_test", "_init"}
RawLimits == {-1, 0, 1, 2}
QueryVectors == {<< >>, <<0>>, <<0, 1>>}

\* pydantic raises ValidationError (a ValueError) naming the fields it refused.
Invalid(o, a, m) ==
    [op |-> o, args |-> a, status |-> "error", error |-> "ValidationError", msg |-> m,
     results |-> << >>, resources |-> << >>, calls |-> << >>, failed |-> NoFailure,
     logs |-> << >>]

\* name: Field(min_length=1), then validate_name on a name that passed it.
NameRefused(name) ==
    IF Len(Chars(name)) < 1 THEN <<"name", "at least 1 character">>
    ELSE IF ~validate_name(name) THEN <<"name", "Table name must be alphanumeric">>
    ELSE << >>

\* TableConfig(name=name, dimension=dimension)
TableConfig(name, dimension) ==
    LET a == [NoArgs EXCEPT !.name = name, !.dimension = dimension]
        m == NameRefused(name)
               \o (IF dimension > 0 THEN << >> ELSE <<"dimension", "greater than 0">>)
    IN  IF m = << >> THEN Success("TableConfig", a, << >>)
        ELSE Invalid("TableConfig", a, m)

\* limit: Field(default=10, gt=0)
LimitRefused(limit) ==
    IF limit > 0 THEN << >> ELSE <<"limit", "greater than 0">>

\* SearchQuery(vector=vector, limit=limit), SearchQuery(vector=vector)
SearchQuery(vector, given, limit) ==
    LET k == IF given THEN limit ELSE DefaultLimit
        a == [NoArgs EXCEPT !.vector = vector, !.limit = k]
        m == (IF Len(vector) >= 1 THEN << >> ELSE <<"vector", "at least 1 item">>)
               \o LimitRefused(k)
    IN  IF m = << >> THEN Success("SearchQuery", a, << >>)
        ELSE Invalid("SearchQuery", a, m)

ConstructTableConfig ==
    /\ \E name \in ConfigNames, dimension \in DimInputs :
           Return(Client, TableConfig(name, dimension))
    /\ UNCHANGED <<gateway, lock, pc, req, observed, shell>>

ConstructSearchQuery ==
    /\ \E vector \in QueryVectors, given \in BOOLEAN, limit \in RawLimits :
           Return(Client, SearchQuery(vector, given, limit))
    /\ UNCHANGED <<gateway, lock, pc, req, observed, shell>>

\* search_vectors(table_name, query_vector) and
\* search_vectors(table_name, query_vector, limit) with any integer.
CallSearchVectorsAnyLimit ==
    /\ lock = NoProc
    /\ \E n \in Names, q \in VectorInputs, given \in BOOLEAN, limit \in RawLimits :
           search_vectors(Client, n, q, IF given THEN limit ELSE DefaultLimit, "none")
    /\ UNCHANGED <<lock, pc, req, observed, shell>>

NextModels ==
    \/ CallStart
    \/ CallCreateTable
    \/ CallSearchVectorsAnyLimit
    \/ ConstructTableConfig
    \/ ConstructSearchQuery

SpecModels == Init /\ [][NextModels]_vars

-----------------------------------------------------------------------------
(* SpecCli: the cli command and the functions of __init__.py, run one      *)
(* after the other in one directory.                                       *)

RunCli ==
    /\ \E name \in CliNames, version \in Versions, description \in Descriptions,
          templates \in BOOLEAN :
           cli(name, version, description, templates)
    /\ UNCHANGED <<gateway, lock, pc, req, ret, observed>>

CallCheckPackageName ==
    /\ \E name \in CheckNames :
           result' = IF check_package_name(name) # ""
                     THEN Ended("check_package_name", name, 1, "SystemExit",
                                <<check_package_name(name)>>)
                     ELSE Ended("check_package_name", name, 0, "", << >>)
    /\ UNCHANGED <<fs, gateway, lock, pc, req, ret, observed>>

CallCreateProject ==
    /\ \E name \in CliNames, version \in Versions, description \in Descriptions,
          templates \in BOOLEAN :
           IF check_package_name(name) # ""
           THEN /\ fs' = fs
                /\ result' = Ended("create_project", name, 1, "SystemExit",
                                   <<check_package_name(name)>>)
           ELSE /\ fs' = create_project(fs, name, description, version, templates)
                /\ result' = IF templates THEN Ended("create_project", name, 0, "", << >>)
                             ELSE Ended("create_project", name, 1, "TemplateNotFound",
                                        << >>)
    /\ UNCHANGED <<gateway, lock, pc, req, ret, observed>>

CallUpdatePyprojectSettings ==
    /\ \E settings \in SettingsInputs :
           /\ fs' = update_pyproject_settings(fs, settings)
           /\ result' = [Ended("update_pyproject_settings", "", 0, "", << >>)
                           EXCEPT !.settings = settings]
    /\ UNCHANGED <<gateway, lock, pc, req, ret, observed>>

NextCli ==
    \/ RunCli
    \/ CallCheckPackageName
    \/ CallCreateProject
    \/ CallUpdatePyprojectSettings

SpecCli == Init /\ [][NextCli]_vars

-----------------------------------------------------------------------------
(* SpecFaults: one caller, and every call to the store may raise: the      *)
(* steps of start, table_names in list_resources, create_table, the        *)
(* open_table of the lookup, table.add and table.search.                   *)

FaultNames == {"t1"}
FaultDims == {1, 2}
FaultVectors == {<<1>>, <<0, 1>>}
FaultTexts == {"a"}
FaultLimits == {1}

\* What create_table on n overwrote, noted when the call returns success.
Remember(n) ==
    replaced' =
        IF ret'[Client].op = "create_table" /\ ret'[Client].status = "success"
        THEN [replaced EXCEPT ![n] = IF HasVectorField(store[n]) THEN store[n].dim ELSE 0]
        ELSE replaced

FaultyListResources ==
    /\ lock = NoProc
    /\ \E fault \in {"none", "table_names"} : list_resources(Client, fault)
    /\ UNCHANGED <<lock, pc, req, observed, shell>>

FaultyCreateTable ==
    /\ lock = NoProc
    /\ \E n \in FaultNames, d \in FaultDims, fault \in {"none", "create_table"} :
           create_table(Client, n, d, fault) /\ Remember(n)
    /\ UNCHANGED <<lock, pc, req, acked, shell>>

FaultyAddVector ==
    /\ lock = NoProc
    /\ CanAdd(MaxRecords)
    /\ \E n \in FaultNames, v \in FaultVectors, t \in FaultTexts,
          fault \in {"none", "open_table", "add"} :
           add_vector(Client, n, v, t, fault)
    /\ UNCHANGED <<lock, pc, req, observed, shell>>

FaultySearchVectors ==
    /\ lock = NoProc
    /\ \E n \in FaultNames, q \in FaultVectors, k \in FaultLimits,
          fault \in {"none", "open_table", "search"} :
           search_vectors(Client, n, q, k, fault)
    /\ UNCHANGED <<lock, pc, req, observed, shell>>

NextFaults ==
    \/ CallStart
    \/ CallStop
    \/ FaultyListResources
    \/ FaultyCreateTable
    \/ FaultyAddVector
    \/ FaultySearchVectors

SpecFaults == Init /\ [][NextFaults]_vars

-----------------------------------------------------------------------------
(* SpecLive: NProcs callers as in SpecConc, every store call may raise,    *)
(* and the scheduler is fair: the holder of the lock runs its block to the *)
(* end (each store call returns or raises), and asyncio.Lock wakes its     *)
(* waiters in the order they arrived, so a caller that keeps waiting at a  *)
(* lock that is free again and again gets it.                              *)

\* The store calls of an operation that may raise.
LiveFaults(op) ==
    CASE op = "start" -> StartFaults
      [] op = "list_resources" -> {"none", "table_names"}
      [] op = "create_table" -> {"none", "create_table"}
      [] op = "add_vector" -> {"none", "open_table", "add"}
      [] op = "search_vectors" -> {"none", "open_table", "search"}
      [] OTHER -> {"none"}

BodyLive(p) ==
    LET a == req[p].args IN
    \E fault \in LiveFaults(req[p].op) :
        CASE req[p].op = "start" -> start(p, fault, {})
          [] req[p].op = "stop" -> stop(p)
          [] req[p].op = "list_resources" -> list_resources(p, fault)
          [] req[p].op = "create_table" -> create_table(p, a.name, a.dimension, fault)
          [] req[p].op = "add_vector" -> add_vector(p, a.name, a.vector, a.text, fault)
          [] req[p].op = "search_vectors" ->
                 search_vectors(p, a.name, a.vector, a.limit, fault)

\* Mutant: the lock stays with the caller when its block raises.
HeldAfterFailure(p) == IF ret'[p].status = "error" THEN p ELSE NoProc

\* async with self._lock: __aexit__ releases the lock however the block is
\* left, by return or by exception.
Released(p) == NoProc

RunLive(p) ==
    /\ pc[p] = "locked"
    /\ BodyLive(p)
    /\ lock' = Released(p)
    /\ pc' = [pc EXCEPT ![p] = "idle"]
    /\ req' = [req EXCEPT ![p] = NoCall]
    /\ UNCHANGED <<observed, shell>>

NextLive == \E p \in Procs : Invoke(p) \/ Acquire(p) \/ RunLive(p)

Fairness == \A p \in Procs : WF_vars(RunLive(p)) /\ SF_vars(Acquire(p))

SpecLive == Init /\ [][NextLive]_vars /\ Fairness

-----------------------------------------------------------------------------
(* Properties of the operations under Spec.                                *)

\* The last finished call of the caller of Spec.
R == ret[Client]

Occurrences(s, x) == Cardinality({i \in 1..Len(s) : s[i] = x})

IsCall(r, ops) == r.op \in ops

\* The call fits an existing vector table t: the vector has the table's dimension.
Fits(r, t) == HasVectorField(t) /\ Len(r.args.vector) = t.dim

\* C1: on a connected gateway, a successful create_table(name, dimension) with a
\* valid name, followed immediately by list_resources, returns a list in which
\* name appears exactly once.
C1_CreateThenListOnce ==
    [][(/\ IsCall(R, {"create_table"})
        /\ R.status = "success"
        /\ validate_name(R.args.name)
        /\ IsCall(ret'[Client], {"list_resources"}))
       => (/\ ret'[Client].status = "success"
           /\ Occurrences(ret'[Client].resources, R.args.name) = 1)]_vars

\* C1 witness: list_resources has returned the freshly created table t1.
C1_Witness ==
    /\ IsCall(R, {"list_resources"})
    /\ R.status = "success"
    /\ Occurrences(R.resources, "t1") = 1
    /\ \E d \in DimInputs : store["t1"] = NewTable(d)

\* C2 (as claimed): add_vector of a vector of the table's dimension succeeds, and
\* a search_vectors for the same vector with limit 1 right after it returns a
\* non-empty result whose first entry is a record that add_vector inserted with
\* that vector (so it carries a text inserted with it).
C2_AddThenSearchFindsText ==
    [][LET r == ret'[Client]
           n == r.args.name
       IN  /\ (/\ IsCall(r, {"add_vector"})
               /\ db # NoConn
               /\ Fits(r, store[n]))
              => r.status = "success"
           /\ (/\ IsCall(R, {"add_vector"})
               /\ R.status = "success"
               /\ IsCall(r, {"search_vectors"})
               /\ n = R.args.name
               /\ r.args.vector = R.args.vector
               /\ r.args.limit = 1)
              => (/\ r.status = "success"
                  /\ Len(r.results) >= 1
                  /\ r.results[1].vector = R.args.vector
                  /\ \E i \in 2..Len(store[n].rows) :
                         store[n].rows[i] = r.results[1])]_vars

\* C3: add_vector and search_vectors with a vector whose length differs from the
\* table's dimension fail, on a connected gateway with a message that names the
\* dimension, and the stored records are what they were before the call.
C3_MismatchRejected ==
    [][LET r == ret'[Client]
           n == r.args.name
       IN  (/\ IsCall(r, {"add_vector", "search_vectors"})
            /\ HasVectorField(store[n])
            /\ Len(r.args.vector) # store[n].dim)
           => (/\ r.status = "error"
               /\ db # NoConn => Contains(r.msg, "dimension")
               /\ store' = store)]_vars

\* C3 witness: add_vector was refused for its vector's length on a table that
\* holds records.
C3_Witness ==
    /\ IsCall(R, {"add_vector"})
    /\ R.status = "error"
    /\ Contains(R.msg, "mismatch")
    /\ Len(store[R.args.name].rows) > 1

\* C4: on a connected gateway, add_vector and search_vectors against a name the
\* store does not hold fail with DatabaseError whose message contains
\* "not found" and not "dimension"; a length mismatch fails with a message that
\* contains "dimension" and not "not found".
C4_MissingTableNotFound ==
    LET n == R.args.name IN
    (IsCall(R, {"add_vector", "search_vectors"}) /\ db # NoConn)
    => /\ store[n] = NoTable
          => (/\ R.status = "error"
              /\ R.error = "DatabaseError"
              /\ Contains(R.msg, "not found")
              /\ ~Contains(R.msg, "dimension"))
       /\ (HasVectorField(store[n]) /\ Len(R.args.vector) # store[n].dim)
          => (/\ R.status = "error"
              /\ R.error = "DatabaseError"
              /\ Contains(R.msg, "dimension")
              /\ ~Contains(R.msg, "not found"))

\* C4 witness: add_vector against a name the store does not hold has failed.
C4_Witness ==
    /\ IsCall(R, {"add_vector"})
    /\ db # NoConn
    /\ store[R.args.name] = NoTable
    /\ Contains(R.msg, "not found")

\* C5: while no connection is live, create_table, add_vector and search_vectors
\* fail with DatabaseError "Database not initialized", issue no store call and
\* leave the cache and the store as they were.
C5_NotConnectedFails ==
    [][LET r == ret'[Client] IN
       (db = NoConn /\ IsCall(r, {"create_table", "add_vector", "search_vectors"}))
       => (/\ r.status = "error"
           /\ r.error = "DatabaseError"
           /\ Contains(r.msg, "Database not initialized")
           /\ r.calls = << >>
           /\ tables' = tables
           /\ store' = store
           /\ db' = NoConn)]_vars

\* C5 witness: create_table was refused after a start that failed on a connected
\* gateway (the cache still holds the handles of the lost connection).
C5_Witness ==
    /\ IsCall(R, {"create_table"})
    /\ R.args.dimension > 0
    /\ R.status = "error"
    /\ db = NoConn
    /\ DOMAIN tables # {}

\* C6: after stop and a successful start the store's tables are the ones from
\* before the stop, unchanged; on a connected gateway list_resources succeeds
\* and create_table, add_vector and search_vectors succeed for fitting
\* arguments; and every cached handle was opened under the live connection.
C6_RestartRestores ==
    [][LET r == ret'[Client]
           n == r.args.name
       IN  /\ db' # NoConn => \A m \in DOMAIN tables' : tables'[m].conn = db'
           /\ (IsCall(R, {"stop"}) /\ IsCall(r, {"start"}) /\ r.status = "success")
              => (/\ db' # NoConn
                  /\ UserTables(store') = UserTables(store)
                  /\ \A m \in Range(UserTables(store)) : store'[m] = store[m])
           /\ (db # NoConn /\ IsCall(r, {"list_resources"}))
              => r.status = "success" /\ r.resources = UserTables(store)
           /\ (db # NoConn /\ IsCall(r, {"create_table"}) /\ r.args.dimension > 0)
              => r.status = "success"
           /\ (db # NoConn /\ IsCall(r, {"add_vector", "search_vectors"})
                 /\ Fits(r, store[n]))
              => r.status = "success"]_vars

\* C6 witness: start has succeeded with no connection live before it, and the
\* cache holds the handle of a table that already holds a record.
C6_Witness ==
    /\ IsCall(R, {"start"})
    /\ R.status = "success"
    /\ "t1" \in DOMAIN tables
    /\ tables["t1"].conn = db
    /\ Len(store["t1"].rows) > 1

\* C7 (as claimed): a successful create_table on a name that already holds a
\* table leaves that table empty.
C7_RecreateLeavesEmpty ==
    [][LET r == ret'[Client]
           n == r.args.name
       IN  (/\ IsCall(r, {"create_table"})
            /\ r.status = "success"
            /\ HasVectorField(store[n]))
           => store'[n].rows = << >>]_vars

\* C8 (as claimed): a successful search_vectors with limit > 0 on a table into
\* which add_vector has put n records since its creation returns exactly
\* min(limit, n) entries.
C8_SearchReturnsMinLimitN ==
    (IsCall(R, {"search_vectors"}) /\ R.status = "success" /\ R.args.limit > 0)
    => Len(R.results) = Min(R.args.limit, Len(store[R.args.name].rows) - 1)

-----------------------------------------------------------------------------
(* Properties of the operations under SpecConc.                            *)

Locked == {p \in Procs : pc[p] = "locked"}

\* Caller p leaves the block under the lock in this step.
Returns(p) == pc[p] = "locked" /\ pc'[p] = "idle"

\* C9: under any interleaving of start, stop, create_table, add_vector,
\* search_vectors and list_resources calls, at most one call at a time is inside
\* the block that reads and writes db and tables, that call holds the lock, and
\* every step that changes db, tables or the store or finishes a call is taken
\* by the lock's holder alone.
C9_MutualExclusion ==
    [][/\ Cardinality({p \in Procs : pc'[p] = "locked"}) <= 1
       /\ \A p \in Procs : pc'[p] = "locked" => lock' = p
       /\ (gateway' # gateway \/ \E p \in Procs : ret'[p] # NoRet /\ ret'[p] # ret[p])
          => \E p \in Procs :
                 /\ lock = p
                 /\ Locked = {p}
                 /\ \A q \in Procs \ {p} : ret'[q] = ret[q] /\ pc'[q] = pc[q]]_vars

\* C9 witness: one caller is inside the block, holding the lock, while another
\* waits at the lock.
C9_Witness ==
    \E p, q \in Procs :
        /\ p # q
        /\ pc[p] = "locked"
        /\ lock = p
        /\ pc[q] = "waiting"
        /\ req[p].op = "add_vector"
        /\ req[q].op = "stop"

Records(history) == [i \in 1..Len(history) |-> history[i].record]

\* C10: every add_vector with a fitting vector that reaches an existing table
\* succeeds and appends exactly its record, whatever calls of other callers are
\* in flight; so each table holds, after the row create_table wrote, exactly
\* the records of the add_vector calls that succeeded, once each, in the order
\* the calls returned.  A search_vectors for no more entries than records were
\* added then returns exactly limit entries.
C10_ConcurrentAddsAllStored ==
    [][/\ \A n \in Names :
              HasVectorField(store'[n]) => Tail(store'[n].rows) = Records(acked'[n])
       /\ \A p \in Procs :
              LET n == req[p].args.name
                  record == [vector |-> req[p].args.vector, text |-> req[p].args.text]
              IN  (/\ Returns(p)
                   /\ req[p].op = "add_vector"
                   /\ db # NoConn
                   /\ Fits(req[p], store[n]))
                  => (/\ ret'[p].status = "success"
                      /\ store'[n].rows = Append(store[n].rows, record)
                      /\ \A q \in Procs \ {p} : req'[q] = req[q])
       /\ \A p \in Procs :
              LET n == req[p].args.name IN
              (/\ Returns(p)
               /\ req[p].op = "search_vectors"
               /\ db # NoConn
               /\ Fits(req[p], store[n])
               /\ req[p].args.limit <= Len(acked[n]))
              => (/\ ret'[p].status = "success"
                  /\ Len(ret'[p].results) = req[p].args.limit)]_vars

\* C10 witness: two add_vector calls on t1 were in flight together and both
\* returned success; afterwards one caller searched t1 with limit 2 and got
\* two entries.
C10_Witness ==
    /\ Len(acked["t1"]) = 2
    /\ acked["t1"][1].concurrent
    /\ Len(store["t1"].rows) = 3
    /\ \A p \in Procs : pc[p] = "idle"
    /\ \E p, q \in Procs :
           /\ p # q
           /\ ret[p].op = "add_vector" /\ ret[p].status = "success"
           /\ ret[q].op = "search_vectors" /\ ret[q].status = "success"
           /\ ret[q].args.limit = 2
           /\ Len(ret[q].results) = 2

-----------------------------------------------------------------------------
(* Properties of start, stop and list_resources under Spec.                *)

\* C11 (as claimed): a start that fails, at whichever step and whether or not a
\* connection was live before it, raises DatabaseError and leaves db unset.
C11_FailedStartUnsetsConnection ==
    [][LET r == ret'[Client] IN
       (IsCall(r, {"start"}) /\ r.status = "error")
       => (r.error = "DatabaseError" /\ db' = NoConn)]_vars

\* The connection the first successful start of a new gateway makes.
FirstConn == CHOOSE c \in ConnIds : c # NoConn

\* C12: start on a connected gateway fails only when an underlying call fails
\* (there is no "already connected" error); when it succeeds db is a connection
\* other than the previous one and every handle in the cache was obtained under
\* the new connection, none under the previous one.
C12_RestartReplacesConnection ==
    [][LET r == ret'[Client] IN
       (db # NoConn /\ IsCall(r, {"start"}))
       => (/\ ~Contains(r.msg, "already connected")
           /\ r.status = "error" => Contains(r.msg, Cause)
           /\ r.status = "success"
              => (/\ db' # NoConn
                  /\ db' # db
                  /\ \A n \in DOMAIN tables' :
                         tables'[n].conn = db' /\ tables'[n].conn # db))]_vars

\* C12 witness: start has succeeded while an earlier connection was still
\* referenced, and the cache holds t1 under the new connection.
C12_Witness ==
    /\ IsCall(R, {"start"})
    /\ R.status = "success"
    /\ db # NoConn
    /\ db # FirstConn
    /\ "t1" \in DOMAIN tables
    /\ tables["t1"].conn = db

\* C13: stop returns success from every state, with db unset, the cache empty
\* and start_time unset, and without touching the store; a stop on a gateway
\* that is already in that state changes nothing.
C13_StopAlwaysSucceeds ==
    [][LET r == ret'[Client] IN
       IsCall(r, {"stop"})
       => (/\ r.status = "success"
           /\ db' = NoConn
           /\ tables' = EmptyCache
           /\ start_time' = FALSE
           /\ store' = store
           /\ (db = NoConn /\ tables = EmptyCache /\ start_time = FALSE)
              => gateway' = gateway)]_vars

\* C13 witness: stop has returned success on a gateway that never had a
\* connection (no start got as far as writing the bookkeeping table).
C13_Witness ==
    /\ IsCall(R, {"stop"})
    /\ R.status = "success"
    /\ db = NoConn
    /\ tables = EmptyCache
    /\ store["_init"] = NoTable

\* C14 (as claimed): list_resources fails when no connection is live, and
\* returns an empty sequence without error on a connected gateway whose store
\* holds no user table.
C14_ListRequiresConnection ==
    [][LET r == ret'[Client] IN
       IsCall(r, {"list_resources"})
       => (/\ db = NoConn => r.status = "error"
           /\ (db # NoConn /\ UserTables(store) = << >>)
              => (r.status = "success" /\ r.resources = << >>))]_vars

\* C15 (as claimed): whatever operations came before, the result of
\* list_resources never names "_init" and names exactly the tables of the store
\* other than "_init".
C15_ListIsUserTables ==
    (IsCall(R, {"list_resources"}) /\ R.status = "success")
    => (/\ "_init" \notin Range(R.resources)
        /\ Range(R.resources) = {n \in Names \ {"_init"} : store[n] # NoTable})

-----------------------------------------------------------------------------
(* Properties of the arguments the caller supplies, under Spec.            *)

\* The last call failed on the data the caller passed: a dimension that is
\* not positive, or a vector whose length is not the table's dimension.
CallerDataFailure(r) ==
    /\ db # NoConn
    /\ \/ IsCall(r, {"create_table"}) /\ r.args.dimension <= 0
       \/ /\ IsCall(r, {"add_vector", "search_vectors"})
          /\ HasVectorField(store[r.args.name])
          /\ Len(r.args.vector) # store[r.args.name].dim

C17_InvalidConfigRejected ==
    [][LET r == ret'[Client] IN
       (/\ db # NoConn
        /\ IsCall(r, {"create_table"})
        /\ (r.args.dimension <= 0 \/ ~validate_name(r.args.name)))
       => (/\ r.status = "error"
           /\ store' = store
           /\ tables' = tables)]_vars

-----------------------------------------------------------------------------
(* Properties of the request models under SpecModels.                      *)

\* The table names the API tests build a TableConfig with.
ApiTestNames == {"test_table", "vector_test"}

\* C18 (as claimed): TableConfig(name, dimension) is constructed exactly when
\* name is non-empty and alphanumeric and dimension > 0; an empty name and
\* dimension 0 are refused with a validation error; the names of the API tests
\* are accepted.
C18_TableConfigAccepts ==
    IsCall(R, {"TableConfig"})
    => (/\ R.status = "success"
           <=> (R.args.name # "" /\ isalnum(R.args.name) /\ R.args.dimension > 0)
        /\ (R.args.name = "" \/ R.args.dimension = 0)
           => (R.status = "error" /\ R.error = "ValidationError")
        /\ (R.args.name \in ApiTestNames /\ R.args.dimension > 0)
           => R.status = "success")

\* C19 (as claimed): SearchQuery takes limit 10 when none is given and refuses a
\* limit that is not positive, and search_vectors never issues table.search
\* with a limit that is not positive.
C19_NonPositiveLimitNeverQueried ==
    /\ IsCall(R, {"SearchQuery"})
       => (R.args.limit <= 0 => (R.status = "error" /\ Contains(R.msg, "limit")))
    /\ IsCall(R, {"search_vectors"})
       => ("search" \in Range(R.calls) => R.args.limit > 0)

-----------------------------------------------------------------------------
(* Properties of the project tools under SpecCli.                          *)

\* C20 (as claimed): a run of the cli command with a name of letters, digits,
\* "-" and "_" in a directory that has no src/<name> exits with code 0 and
\* leaves src/<name> and pyproject.toml behind.
C20_CliCreatesProject ==
    [][(/\ result'.cmd = "cli"
        /\ check_package_name(result'.name) = ""
        /\ result'.name \notin fs.src)
       => (/\ result'.exit_code = 0
           /\ result'.name \in fs'.src
           /\ fs'.toml.exists)]_vars

\* C21 (as claimed): a run of the cli command with a valid name whose src/<name>
\* exists, as a successful run with that name leaves it, exits with code 1,
\* prints "Directory already exists" and changes nothing in the directory.
C21_SecondRunRefused ==
    [][(/\ result'.cmd = "cli"
        /\ check_package_name(result'.name) = ""
        /\ result'.name \in fs.src)
       => (/\ result'.exit_code = 1
           /\ Contains(result'.output, "Directory already exists")
           /\ fs' = fs)]_vars

\* C22 (as claimed): a run of the cli command with a name check_package_name
\* refuses exits with code 1, prints "Invalid package name" and changes nothing
\* in the directory.
C22_InvalidNameReported ==
    [][(result'.cmd = "cli" /\ check_package_name(result'.name) # "")
       => (/\ result'.exit_code = 1
           /\ Contains(result'.output, "Invalid package name")
           /\ fs' = fs)]_vars

\* The characters a package name may consist of.
PackageChars == AlnumChars \cup UpperChars \cup {"_", "-"}

\* C23 (as claimed): check_package_name returns exactly for the non-empty names
\* made of ASCII letters, digits, "-" and "_", and ends the process with exit
\* status 1 for every other name.
C23_CheckPackageNameExact ==
    result.cmd = "check_package_name"
    => (/\ result.exception = ""
           <=> (/\ Chars(result.name) # << >>
                /\ \A i \in 1..Len(Chars(result.name)) :
                       Chars(result.name)[i] \in PackageChars)
        /\ result.exception # ""
           => (result.exception = "SystemExit" /\ result.exit_code = 1))

\* C24: update_pyproject_settings leaves a pyproject.toml whose [project] table,
\* read back by PyProject, has every key of settings at the given value and
\* every other key at the value it had (the defaults when there was no file),
\* and touches nothing else in the directory.
C24_SettingsUpdated ==
    [][result'.cmd = "update_pyproject_settings"
       => LET settings == result'.settings
              before == PyProject(fs.toml)
              after == PyProject(fs'.toml)
          IN  /\ fs'.toml.exists
              /\ DOMAIN after = DOMAIN before \cup DOMAIN settings
              /\ \A k \in DOMAIN settings : after[k] = settings[k]
              /\ \A k \in DOMAIN before \ DOMAIN settings : after[k] = before[k]
              /\ fs'.src = fs.src
              /\ fs'.files = fs.files]_vars

\* C24 witness: the version of the project test-project was set to 1.0.0; its
\* name and description are the ones create_project wrote.
C24_Witness ==
    /\ result.cmd = "update_pyproject_settings"
    /\ result.settings = [version |-> "1.0.0"]
    /\ fs.toml.exists
    /\ PyProject(fs.toml).name = "test-project"
    /\ PyProject(fs.toml).version = "1.0.0"
    /\ PyProject(fs.toml).description = "Test project"

\* C25 (as claimed): whenever no connection is held the table cache is empty,
\* also after a start that failed on a gateway that was connected.
C25_UnsetMeansEmptyCache == db = NoConn => DOMAIN tables = {}

\* C26 (as claimed): whenever a call to the store raised during an operation,
\* the operation ends in an error; none ends in success after such a failure.
C26_StoreFailuresPropagate == R.failed.call # "" => R.status = "error"

\* C27 (as claimed): the message of an error raised because an underlying call
\* failed contains the message of that failure, the failed open_table behind
\* "not found" included.
C27_CausePreserved ==
    (R.status = "error" /\ R.failed.call # "") => Contains(R.msg, R.failed.message)

\* The store call create_table, add_vector and search_vectors each exist for.
StoreCallOf(op) ==
    CASE op = "create_table" -> "create_table"
      [] op = "add_vector" -> "add"
      [] op = "search_vectors" -> "search"

\* C28: one invocation of create_table, add_vector or search_vectors issues its
\* store call (create_table, table.add, table.search) at most once; when that
\* call raises, it was made once, it was the last call of the invocation, and
\* the invocation ends in an error.
C28_NoRetry ==
    IsCall(R, {"create_table", "add_vector", "search_vectors"})
    => (/\ Occurrences(R.calls, StoreCallOf(R.op)) <= 1
        /\ R.failed.call = StoreCallOf(R.op)
           => (/\ R.status = "error"
               /\ Occurrences(R.calls, R.failed.call) = 1
               /\ R.calls[Len(R.calls)] = R.failed.call))

\* C28 witness: the store's create_table raised; it was called once and the
\* operation failed.
C28_Witness ==
    /\ IsCall(R, {"create_table"})
    /\ R.failed.call = "create_table"
    /\ R.calls = <<"create_table">>
    /\ R.status = "error"

\* C29: on a connected gateway add_vector and search_vectors make no open_table
\* call for a cached name and leave the cache as it is; for a name that is not
\* cached they call open_table once, before anything else; when it raises the
\* cache is left exactly as it was, and when it returns the handle is cached
\* under the name next to the unchanged entries.
C29_CacheFirstResolution ==
    [][(IsCall(R', {"add_vector", "search_vectors"}) /\ db # NoConn)
       => LET n == R'.args.name IN
          /\ n \in DOMAIN tables
             => (Occurrences(R'.calls, "open_table") = 0 /\ tables' = tables)
          /\ n \notin DOMAIN tables
             => (/\ Occurrences(R'.calls, "open_table") = 1
                 /\ R'.calls[1] = "open_table"
                 /\ R'.failed.call = "open_table" => tables' = tables
                 /\ R'.failed.call # "open_table"
                    => (/\ DOMAIN tables' = DOMAIN tables \cup {n}
                        /\ tables'[n] = Handle(db, n, store[n].dim)
                        /\ \A m \in DOMAIN tables : tables'[m] = tables[m]))]_vars

\* C29 witness: add_vector found t1 missing from the cache, opened it, cached
\* the handle and added the record.
C29_Witness ==
    /\ IsCall(R, {"add_vector"})
    /\ R.status = "success"
    /\ R.calls = <<"open_table", "add">>
    /\ R.args.name \in DOMAIN tables
    /\ tables[R.args.name].conn = db

\* C30: a successful create_table(name, d) leaves under name the handle of the
\* new table, of dimension d, whatever entry the name had; the dimension of a
\* table changes in no other way; and add_vector and search_vectors on a table
\* they resolve report a dimension mismatch exactly when the vector's length
\* differs from the dimension of the latest creation.
C30_CreateReplacesCacheEntry ==
    [][LET n == R'.args.name IN
       /\ (IsCall(R', {"create_table"}) /\ R'.status = "success")
          => (/\ n \in DOMAIN tables'
              /\ tables'[n] = Handle(db, n, R'.args.dimension)
              /\ store'[n].dim = R'.args.dimension)
       /\ \A m \in FaultNames :
              ~(IsCall(R', {"create_table"}) /\ R'.status = "success" /\ m = n)
              => store'[m].dim = store[m].dim
       /\ (/\ IsCall(R', {"add_vector", "search_vectors"})
           /\ db # NoConn
           /\ HasVectorField(store[n])
           /\ R'.failed.call # "open_table")
          => (Len(R'.args.vector) # store[n].dim <=> Contains(R'.msg, "mismatch"))]_vars

\* C30 witness: t1 was created with dimension 1 and again with dimension 2, and
\* an add_vector of a vector of length 2 has succeeded on it.
C30_Witness ==
    /\ IsCall(R, {"add_vector"})
    /\ R.status = "success"
    /\ R.args.name = "t1"
    /\ Len(R.args.vector) = 2
    /\ replaced["t1"] = 1
    /\ tables["t1"].dim = 2

\* C33 (as claimed): between operations start_time is set exactly when the
\* connection is: both unset on a new gateway, after stop and after any failed
\* start, both set after a successful start.
C33_StartTimeIffConnected == start_time <=> db # NoConn

\* The last log entry an operation emitted.
LastLog(r) == r.logs[Len(r.logs)]

\* C31: the last log entry of a successful start is an INFO entry containing
\* "Server started successfully"; the last entry of a failed start is an ERROR
\* entry containing "Failed to start server"; and an add_vector whose table
\* could not be opened fails after an ERROR entry containing "Table", the name
\* and "not found".  The entries are emitted before the operation returns or
\* raises.
C31_LastLogReflectsOutcome ==
    /\ (IsCall(R, {"start"}) /\ R.status = "success")
       => (/\ R.logs # << >>
           /\ LastLog(R).level = "INFO"
           /\ Contains(LastLog(R).data, "Server started successfully"))
    /\ (IsCall(R, {"start"}) /\ R.status = "error")
       => (/\ R.logs # << >>
           /\ LastLog(R).level = "ERROR"
           /\ Contains(LastLog(R).data, "Failed to start server"))
    /\ (IsCall(R, {"add_vector"}) /\ R.failed.call = "open_table")
       => (/\ R.status = "error"
           /\ R.logs # << >>
           /\ LastLog(R).level = "ERROR"
           /\ Contains(LastLog(R).data, "Table")
           /\ Contains(LastLog(R).data, R.args.name)
           /\ Contains(LastLog(R).data, "not found"))

\* C31 witness: a start failed at lancedb.connect after logging that it was
\* connecting; the two ERROR entries followed.
C31_Witness ==
    /\ IsCall(R, {"start"})
    /\ R.status = "error"
    /\ R.failed.call = "connect"
    /\ Len(R.logs) = 3
    /\ LastLog(R).level = "ERROR"

\* C32: a caller that leaves its block, by return or by exception, leaves the
\* lock free; and every call that was invoked returns or raises in the end,
\* whatever calls failed before it.
C32_LockReleasedAndCallsReturn ==
    /\ [][\A p \in Procs : Returns(p) => lock' = NoProc]_vars
    /\ \A p \in Procs : (pc[p] # "idle") ~> (pc[p] = "idle")

\* C32 witness: a call in which a store call raised has ended in an error, and
\* another caller holds the lock after it.
C32_Witness ==
    \E p, q \in Procs :
        /\ p # q
        /\ pc[p] = "idle"
        /\ ret[p].status = "error"
        /\ ret[p].failed.call # ""
        /\ pc[q] = "locked"
        /\ lock = q

====
